---- MODULE Spec2Model ----
(***************************************************************************)
(* A model of unimocks: the APIService dispatch wrapper (src/index.ts),    *)
(* the puppeteer interception layer (src/puppeteer.ts: RequestMock,        *)
(* mockAPI) and the one statement of setupInteractionBuilders (pact.ts)    *)
(* that changes a service: service.mocks = {}.                             *)
(***************************************************************************)
EXTENDS Integers, Sequences, FiniteSets, TLC

----------------------------------------------------------------------------
(* Bounds of the model. *)

\* dispatch calls made by the application in one run
MaxCalls == 2
\* network requests seen by the page in one run
MaxRequests == 2
\* setResponse / setError / reset calls made by the test in one run
MaxMutations == 2
\* reads of last made by the test in one run
MaxReads == 1
\* granularity of the clock, in milliseconds
TickMs == 100
\* the clock of a pending timer is not tracked beyond this many milliseconds
MaxElapsed == 300

----------------------------------------------------------------------------
(* JavaScript values, JSON texts and the two conversions between them. *)

Undefined == "undefined"
EmptyObject == "Object()"
User == "Object(id)"
Draft == "Object(name)"
UserList == "Array(User)"
AdminList == "Array(Admin)"
EmptyList == "Array()"
CustomOutput == "Object(custom)"
ErrorPayload == "Object(message)"

\* a request or response without a body
NoBody == "<no body>"
\* a body that is not JSON
HtmlText == "<html>"

\* JSON.stringify: undefined has no JSON text (the result is undefined, and
\* a body of undefined is no body)
JSONstringify(v) ==
  CASE v = Undefined -> NoBody
    [] v = EmptyObject -> "{}"
    [] v = User -> "{id:1}"
    [] v = Draft -> "{name:x}"
    [] v = UserList -> "[{id:1}]"
    [] v = AdminList -> "[{id:0}]"
    [] v = EmptyList -> "[]"
    [] v = CustomOutput -> "{custom:true}"
    [] v = ErrorPayload -> "{message:error}"

\* JSON.parse: the value of a JSON text, or a SyntaxError
JSONparse(t) ==
  CASE t = "{}" -> [ok |-> TRUE, v |-> EmptyObject]
    [] t = "{id:1}" -> [ok |-> TRUE, v |-> User]
    [] t = "{name:x}" -> [ok |-> TRUE, v |-> Draft]
    [] t = "[{id:1}]" -> [ok |-> TRUE, v |-> UserList]
    [] t = "[{id:0}]" -> [ok |-> TRUE, v |-> AdminList]
    [] t = "[]" -> [ok |-> TRUE, v |-> EmptyList]
    [] t = "{custom:true}" -> [ok |-> TRUE, v |-> CustomOutput]
    [] t = "{message:error}" -> [ok |-> TRUE, v |-> ErrorPayload]
    [] OTHER -> [ok |-> FALSE, v |-> "SyntaxError"]

\* what a function call produces: a returned value, a value of a resolved
\* promise, a synchronous throw, or a rejected promise
Return(v) == [kind |-> "return", v |-> v]
Resolve(v) == [kind |-> "resolve", v |-> v]
Throw(e) == [kind |-> "throw", v |-> e]
Reject(e) == [kind |-> "reject", v |-> e]
NoOutcome == [kind |-> "none", v |-> Undefined]
Fails(o) == o.kind \in {"throw", "reject"}

----------------------------------------------------------------------------
(* The services of the application: names, request names, live            *)
(* implementations and mocks.                                              *)

Services == {"users", "superusers"}

\* the characters of a service name, in pieces
NameTokens(s) == IF s = "users" THEN <<"users">> ELSE <<"super", "users">>

\* Object.keys(api), in insertion order
RequestKeys(s) ==
  IF s = "users" THEN <<"getUsers", "addUser">> ELSE <<"getUsers">>

RequestNames(s) == {RequestKeys(s)[i] : i \in 1..Len(RequestKeys(s))}

Endpoints == UNION {{<<s, k>> : k \in RequestNames(s)} : s \in Services}

\* the values the application passes to a request, by the type of its
\* input: getUsers takes none, addUser takes a Partial<User>
InputsOf(k) ==
  IF k = "getUsers" THEN {Undefined} ELSE {EmptyObject, Draft, User}

\* the live implementation api[key]
LiveCall(s, k, input) ==
  IF k = "getUsers" THEN Resolve(EmptyList) ELSE Reject("NetworkError")

\* the mock config.mocks[key]: getUsers ignores its input; addUser throws
\* on an object without fields, rejects one without an id, and answers
\* with the user built from any other
MockImpl(s, k, input) ==
  IF k = "getUsers"
  THEN (IF s = "users" THEN Return(UserList) ELSE Resolve(AdminList))
  ELSE CASE input = EmptyObject -> Throw("TypeError")
         [] input = Draft -> Reject("ValidationError")
         [] OTHER -> Resolve(input)

\* the responders a test passes to setResponse and to setError
ResponseMocks == {"custom"}
ErrorMocks == {"error"}
ErrorCodes == {503}

\* a call of a responder: the registry's mock, the fallback () => ({}) of
\* mockAPI, or a function given by the test
Invoke(fn, e, input) ==
  CASE fn = "mock" -> MockImpl(e[1], e[2], input)
    [] fn = "empty" -> Return(EmptyObject)
    [] fn = "custom" -> Return(CustomOutput)
    [] fn = "error" -> Resolve(ErrorPayload)

\* config.timeout when it is not given
NoTimeout == -1
DefaultTimeout == 200
TimeoutChoices == {NoTimeout, 0, 100}

----------------------------------------------------------------------------
(* URLs, as sequences of pieces of text. *)

Origin == <<"http://localhost">>

\* the URL fetch(`/${this.name}/${key}`) requests from the page
FetchUrl(s, k) == Origin \o <<"/">> \o NameTokens(s) \o <<"/", k>>

\* the url of a RequestMock: `${api.name}/${key}`
MatchTarget(e) == NameTokens(e[1]) \o <<"/", e[2]>>

AssetUrl == Origin \o <<"/", "app.js">>

\* String.prototype.endsWith
EndsWith(u, t) ==
  /\ Len(t) <= Len(u)
  /\ SubSeq(u, Len(u) - Len(t) + 1, Len(u)) = t

----------------------------------------------------------------------------
(* State. *)

VARIABLES
  config,        \* per service: the config given to the constructor
  mocks,         \* per service: the request names this.mocks has a mock for
  calls,         \* the dispatch calls made so far, in call order
  interception,  \* page.setRequestInterception(true) has been called
  activation,    \* per service: how far mockAPI(service, page) has got
  listeners,     \* the page's "request" listeners, in registration order
  rm,            \* per endpoint: the fields of its RequestMock
  reqs,          \* the network requests of the page, in arrival order
  mutations,     \* setResponse / setError / reset calls made so far
  lasts          \* the reads of last made so far, in order

vars ==
  <<config, mocks, calls, interception, activation, listeners, rm, reqs,
    mutations, lasts>>

\* the fields of a new RequestMock, and two records of what was done with
\* it: op, the last of setResponse, setError and reset called on it, and
\* sent, the log of its respond() calls
NewRequestMock(base) ==
  [status |-> 200, override |-> "none", calls |-> <<>>, baseMock |-> base,
   op |-> <<"new">>, sent |-> <<>>]

\* what a listener saw of its RequestMock when it chose the responder
NotSeen == [status |-> 0, op |-> <<>>, mutations |-> 0]

NoVote ==
  [action |-> "none", priority |-> 0, status |-> 0, body |-> NoBody,
   by |-> <<>>]

NoReply == [kind |-> "none", status |-> 0, body |-> NoBody]

\* a request emitted by the page: with interception on, every listener
\* registered at that moment is queued for it; without, it goes to the
\* network at once
NewRequest(method, url, body, c) ==
  [method |-> method, url |-> url, body |-> body, call |-> c,
   nl |-> IF interception THEN Len(listeners) ELSE 0,
   idx |-> 1, phase |-> "run", input |-> Undefined, pending |-> NoOutcome,
   used |-> "none", seen |-> NotSeen, skipped |-> {}, failed |-> {},
   vote |-> NoVote,
   handled |-> FALSE, stuck |-> FALSE,
   done |-> IF interception THEN "no" ELSE "network", reply |-> NoReply]

\* the state after the services are constructed with the given configs
\* and mocks (index.ts, lines 47-49)
Constructed(cfgs, ms) ==
  /\ config \in cfgs
  /\ mocks \in ms
  /\ calls = <<>>
  /\ interception = FALSE
  /\ activation = [s \in Services |-> "idle"]
  /\ listeners = <<>>
  /\ rm = [e \in Endpoints |-> NewRequestMock("empty")]
  /\ reqs = <<>>
  /\ mutations = 0
  /\ lasts = <<>>

\* the integration build: integrationMocks comes from the environment of
\* the build and is set for every service; every request has a mock
Init ==
  Constructed({[s \in Services |->
                 [integrationMocks |-> TRUE, timeout |-> NoTimeout]]},
              {[s \in Services |-> RequestNames(s)]})

\* the development build: no service has integrationMocks; mocks are given
\* for all, some or none of the requests of users
InitLocal ==
  Constructed({[s \in Services |->
                 [integrationMocks |-> FALSE, timeout |-> t]] :
                 t \in TimeoutChoices},
              {[s \in Services |-> IF s = "users" THEN m ELSE RequestNames(s)] :
                 m \in {{}, {"getUsers"}, {"getUsers", "addUser"}}})

----------------------------------------------------------------------------
(* The dispatch wrapper this.requests[key] (index.ts, lines 52-71). *)

\* the branches in another order: the mock is looked up first
RouteMocksFirst(s, k) ==
  IF k \in mocks[s] THEN "mock"
  ELSE IF config[s].integrationMocks THEN "tunnel"
  ELSE "live"

\* the branches without the lookup of the mock
RouteMockAlways(s, k) ==
  IF config[s].integrationMocks THEN "tunnel" ELSE "mock"

\* the branches decided from the requests the service was built with
RouteByRequestNames(s, k) ==
  IF config[s].integrationMocks THEN "tunnel"
  ELSE IF k \in RequestNames(s) THEN "mock"
  ELSE "live"

\* the branch a call takes
Route(s, k) ==
  IF config[s].integrationMocks THEN "tunnel"
  ELSE IF k \in mocks[s] THEN "mock"
  ELSE "live"

\* a timer that is armed with no delay
TimeoutIgnored(t) == 0

\* config?.timeout || 200
TimeoutOrDefault(t) == IF t = NoTimeout \/ t = 0 THEN DefaultTimeout ELSE t

\* a call and what is recorded of it: whether this.mocks had a mock for
\* the request and whether mockAPI had been run for the service when it was
\* made, the time it has waited, and how often it has called fetch, the
\* mock and the live implementation
NewCall(s, k, input, route) ==
  [svc |-> s, key |-> k, input |-> input, route |-> route, st |-> "pending",
   result |-> Undefined, timer |-> "none", delay |-> 0, elapsed |-> 0,
   hadMock |-> k \in mocks[s], afterMockAPI |-> activation[s] = "installed",
   fetches |-> 0, mockRuns |-> 0, liveRuns |-> 0, req |-> 0]

\* this.requests[key](input), up to its first await
Dispatch(s, k, input) ==
  /\ Len(calls) < MaxCalls
  /\ LET route == Route(s, k)
         c == NewCall(s, k, input, route)
     IN CASE route = "tunnel" ->
               /\ Len(reqs) < MaxRequests
               /\ reqs' = Append(reqs, NewRequest("POST", FetchUrl(s, k),
                                   JSONstringify(input), Len(calls) + 1))
               /\ calls' = Append(calls, [c EXCEPT !.fetches = 1,
                                                    !.req = Len(reqs) + 1])
          [] route = "mock" ->
               /\ calls' = Append(calls,
                     [c EXCEPT !.timer = "armed",
                               !.delay = TimeoutOrDefault(config[s].timeout)])
               /\ UNCHANGED reqs
          [] route = "live" ->
               /\ calls' = Append(calls, [c EXCEPT !.liveRuns = 1])
               /\ UNCHANGED reqs
  /\ UNCHANGED <<lasts, config, mocks, interception, activation, listeners, rm,
                 mutations>>

\* time passes for the pending timers
Tick ==
  /\ \E i \in 1..Len(calls) :
       calls[i].timer = "armed" /\ calls[i].elapsed < MaxElapsed
  /\ calls' = [i \in 1..Len(calls) |->
                IF calls[i].timer = "armed"
                THEN [calls[i] EXCEPT !.elapsed = @ + TickMs]
                ELSE calls[i]]
  /\ UNCHANGED <<lasts, config, mocks, interception, activation, listeners, rm, reqs,
                 mutations>>

\* the settled state of a promise resolved with Promise.resolve(outcome)
Settle(c, o) ==
  IF Fails(o) THEN [c EXCEPT !.st = "rejected", !.result = o.v]
  ELSE [c EXCEPT !.st = "resolved", !.result = o.v]

\* the callback of setTimeout: resolve(Promise.resolve(this.mocks[key](input)));
\* this.mocks[key] is read now, and a throw inside the callback (the mock's,
\* or the TypeError of calling undefined) never reaches resolve
TimerFire(i) ==
  /\ i \in 1..Len(calls)
  /\ calls[i].timer = "armed"
  /\ calls[i].elapsed >= calls[i].delay
  /\ LET c == [calls[i] EXCEPT !.timer = "fired"]
         o == MockImpl(c.svc, c.key, c.input)
     IN calls' = [calls EXCEPT ![i] =
          IF c.key \notin mocks[c.svc] THEN c
          ELSE IF o.kind = "throw" THEN [c EXCEPT !.mockRuns = @ + 1]
          ELSE Settle([c EXCEPT !.mockRuns = @ + 1], o)]
  /\ UNCHANGED <<lasts, config, mocks, interception, activation, listeners, rm, reqs,
                 mutations>>

\* return call(input): the call settles as the live implementation does
LiveSettle(i) ==
  /\ i \in 1..Len(calls)
  /\ calls[i].route = "live"
  /\ calls[i].st = "pending"
  /\ calls' = [calls EXCEPT ![i] =
                 Settle(@, LiveCall(@.svc, @.key, @.input))]
  /\ UNCHANGED <<lasts, config, mocks, interception, activation, listeners, rm, reqs,
                 mutations>>

\* a wrapper that takes only a 2xx response for a success
OutcomeOfOkReply(reply) ==
  IF reply.kind = "error" THEN Reject("NetworkError")
  ELSE IF reply.status < 200 \/ reply.status > 299 THEN Reject("HTTPError")
  ELSE IF JSONparse(reply.body).ok THEN Resolve(JSONparse(reply.body).v)
  ELSE Reject(JSONparse(reply.body).v)

\* await fetch(...) rejects on a network error and resolves on a response
\* of any status; response.json() rejects on a body that is not JSON
OutcomeOfReply(reply) ==
  IF reply.kind = "error" THEN Reject("NetworkError")
  ELSE IF JSONparse(reply.body).ok THEN Resolve(JSONparse(reply.body).v)
  ELSE Reject(JSONparse(reply.body).v)

\* await fetch(...), then return await response.json()
FetchSettle(i) ==
  /\ i \in 1..Len(calls)
  /\ calls[i].route = "tunnel"
  /\ calls[i].st = "pending"
  /\ reqs[calls[i].req].reply.kind # "none"
  /\ calls' = [calls EXCEPT ![i] =
                 Settle(@, OutcomeOfReply(reqs[calls[i].req].reply))]
  /\ UNCHANGED <<lasts, config, mocks, interception, activation, listeners, rm, reqs,
                 mutations>>

----------------------------------------------------------------------------
(* The page and its requests (puppeteer's cooperative interception, as     *)
(* RequestMock uses it: respond and continue with a priority).             *)

\* request.respond(response, priority): the response is kept, and it becomes
\* the resolution unless a resolution of higher priority is recorded
RespondVote(vote, e, status, body, priority) ==
  LET kept == [vote EXCEPT !.status = status, !.body = body, !.by = e]
  IN IF vote.action = "none" \/ priority >= vote.priority
     THEN [kept EXCEPT !.action = "respond", !.priority = priority]
     ELSE kept

\* request.continue({}, priority): becomes the resolution unless a
\* resolution of higher priority, or a response of the same, is recorded
ContinueVote(vote, priority) ==
  IF \/ vote.action = "none"
     \/ priority > vote.priority
     \/ priority = vote.priority /\ vote.action # "respond"
  THEN [vote EXCEPT !.action = "continue", !.priority = priority]
  ELSE vote

\* what another observer of the page answers with
OtherReply == [kind |-> "response", status |-> 404, body |-> HtmlText]

\* what the network answers
ExternalReplies ==
  {[kind |-> "response", status |-> 404, body |-> HtmlText],
   [kind |-> "error", status |-> 0, body |-> NoBody]}

\* traffic of the page that does not come from a dispatch call
PageTraffic == {[url |-> AssetUrl, body |-> NoBody]}

PageRequest(t) ==
  /\ Len(reqs) < MaxRequests
  /\ reqs' = Append(reqs, NewRequest("GET", t.url, t.body, 0))
  /\ UNCHANGED <<lasts, config, mocks, calls, interception, activation, listeners,
                 rm, mutations>>

\* another observer of the page resolves the request on its own
OtherObserver(r) ==
  /\ r \in 1..Len(reqs)
  /\ reqs[r].done = "no"
  /\ ~reqs[r].handled
  /\ reqs' = [reqs EXCEPT ![r].handled = TRUE, ![r].done = "other",
                           ![r].reply = OtherReply]
  /\ UNCHANGED <<lasts, config, mocks, calls, interception, activation, listeners,
                 rm, mutations>>

\* once every queued listener has run, the recorded resolution is applied
Finalize(r) ==
  /\ r \in 1..Len(reqs)
  /\ reqs[r].done = "no"
  /\ reqs[r].idx = reqs[r].nl + 1
  /\ ~reqs[r].handled
  /\ ~reqs[r].stuck
  /\ reqs[r].vote.action # "none"
  /\ LET q == reqs[r]
     IN reqs' = [reqs EXCEPT ![r] =
          IF q.vote.action = "respond"
          THEN [q EXCEPT !.handled = TRUE, !.done = "respond",
                         !.reply = [kind |-> "response",
                                    status |-> q.vote.status,
                                    body |-> q.vote.body]]
          ELSE [q EXCEPT !.handled = TRUE, !.done = "network"]]
  /\ UNCHANGED <<lasts, config, mocks, calls, interception, activation, listeners,
                 rm, mutations>>

\* the network's answer to the fetch of a dispatch call
ExternalReply(r, o) ==
  /\ r \in 1..Len(reqs)
  /\ reqs[r].done = "network"
  /\ reqs[r].call # 0
  /\ reqs[r].reply.kind = "none"
  /\ reqs' = [reqs EXCEPT ![r].reply = o]
  /\ UNCHANGED <<lasts, config, mocks, calls, interception, activation, listeners,
                 rm, mutations>>

----------------------------------------------------------------------------
(* RequestMock (puppeteer.ts, lines 44-107). *)

\* the priority of request.respond(response, 0)
RespondPriority == 0

\* the priority of request.continue({}, -1)
ContinuePriority == -1

\* request.postData() as it is
PostDataAsSent(body) == body

\* request.postData() || "{}"
PostDataOrEmpty(body) == IF body = NoBody \/ body = "" THEN "{}" ELSE body

\* request.url().endsWith(this.url)
Matches(url, e) == EndsWith(url, MatchTarget(e))

\* this.baseMock whatever this.override is
BaseResponder(m) == m.baseMock

\* this.override || this.baseMock
Responder(m) == IF m.override # "none" THEN m.override ELSE m.baseMock

\* the listener is done with the request: the next one is called
Advance(q) ==
  [q EXCEPT !.idx = @ + 1, !.phase = "run", !.input = Undefined,
            !.pending = NoOutcome, !.used = "none", !.seen = NotSeen]

\* a listener that catches the failure of its responder and answers 500
RespondAfterThrow(q) ==
  {Advance([q EXCEPT !.vote =
     RespondVote(@, listeners[q.idx], 500, NoBody, 0)])}

\* the listener's promise is rejected: depending on the version of
\* puppeteer the next listener is called, or the request is left as it is
AfterThrow(q) == {Advance(q), [Advance(q) EXCEPT !.stuck = TRUE]}

\* listener, lines 60-65 and 78-83: up to the await of the responder
ListenerEnter(r) ==
  /\ r \in 1..Len(reqs)
  /\ reqs[r].idx <= reqs[r].nl
  /\ reqs[r].phase = "run"
  /\ ~reqs[r].stuck
  /\ LET q == reqs[r]
         e == listeners[q.idx]
         parsed == JSONparse(PostDataOrEmpty(q.body))
         fn == Responder(rm[e])
     IN IF q.handled
        THEN reqs' = [reqs EXCEPT ![r] =
               Advance([q EXCEPT !.skipped = @ \cup {"enter"}])]
        ELSE IF Matches(q.url, e)
        THEN IF parsed.ok
             THEN reqs' = [reqs EXCEPT ![r] =
                    [q EXCEPT !.phase = "await", !.input = parsed.v,
                              !.used = fn,
                              !.seen = [status |-> rm[e].status,
                                        op |-> rm[e].op,
                                        mutations |-> mutations],
                              !.pending = Invoke(fn, e, parsed.v)]]
             ELSE \E n \in AfterThrow(q) : reqs' = [reqs EXCEPT ![r] = n]
        ELSE reqs' = [reqs EXCEPT ![r] =
               Advance([q EXCEPT !.vote = ContinueVote(@, ContinuePriority)])]
  /\ UNCHANGED <<lasts, config, mocks, calls, interception, activation, listeners,
                 rm, mutations>>

\* a listener without the guard of line 66
NeverSkip(q) == FALSE

\* the guard of line 66: the responder's result is dropped
SkipAfterAwait(q) == q.handled

\* this.calls.unshift(call)
Unshift(history, call) == <<call>> \o history

\* a listener that answers without recording the call
NoPush(history, call) == history

\* this.calls.push(call)
Push(history, call) == Append(history, call)

\* listener, lines 65-77: from the responder's result on
ListenerResume(r) ==
  /\ r \in 1..Len(reqs)
  /\ reqs[r].phase = "await"
  /\ LET q == reqs[r]
         e == listeners[q.idx]
         output == q.pending.v
     IN IF Fails(q.pending)
        THEN /\ \E n \in AfterThrow([q EXCEPT !.failed = @ \cup {e}]) :
                  reqs' = [reqs EXCEPT ![r] = n]
             /\ UNCHANGED rm
        ELSE IF SkipAfterAwait(q)
        THEN /\ reqs' = [reqs EXCEPT ![r] =
                  Advance([q EXCEPT !.skipped = @ \cup {"resume"}])]
             /\ UNCHANGED rm
        ELSE /\ rm' = [rm EXCEPT ![e].calls =
                         Push(@, [input |-> q.input, output |-> output]),
                       ![e].sent =
                         Append(@, [req |-> r, status |-> rm[e].status,
                                    body |-> JSONstringify(output),
                                    used |-> q.used, seen |-> q.seen,
                                    mutations |-> mutations])]
             /\ reqs' = [reqs EXCEPT ![r] =
                  Advance([q EXCEPT !.vote =
                    RespondVote(@, e, rm[e].status, JSONstringify(output),
                                RespondPriority)])]
  /\ UNCHANGED <<lasts, config, mocks, calls, interception, activation, listeners,
                 mutations>>

\* the status reset() sets
ResetStatus == 200

\* a setResponse that also puts the status back to 200
WithResponseAndOk(m, mock) ==
  [m EXCEPT !.status = 200, !.override = mock,
            !.op = <<"setResponse", mock>>]

\* the RequestMock after setResponse(mock): this.override = mock
WithResponse(m, mock) ==
  [m EXCEPT !.override = mock, !.op = <<"setResponse", mock>>]

SetResponse(e, mock) ==
  /\ activation[e[1]] = "installed"
  /\ mutations < MaxMutations
  /\ rm' = [rm EXCEPT ![e] = WithResponse(@, mock)]
  /\ mutations' = mutations + 1
  /\ UNCHANGED <<lasts, config, mocks, calls, interception, activation, listeners,
                 reqs>>

SetError(e, code, mock) ==
  /\ activation[e[1]] = "installed"
  /\ mutations < MaxMutations
  /\ rm' = [rm EXCEPT ![e].status = code, ![e].override = mock,
                       ![e].op = <<"setError", code, mock>>]
  /\ mutations' = mutations + 1
  /\ UNCHANGED <<lasts, config, mocks, calls, interception, activation, listeners,
                 reqs>>

\* a reset that also empties the history
AfterResetCleared(m) ==
  [m EXCEPT !.status = ResetStatus, !.override = "none", !.op = <<"reset">>,
            !.calls = <<>>, !.sent = <<>>]

\* the RequestMock after reset(): this.status = 200, this.override = undefined
AfterReset(m) ==
  [m EXCEPT !.status = ResetStatus, !.override = "none", !.op = <<"reset">>]

Reset(e) ==
  /\ activation[e[1]] = "installed"
  /\ mutations < MaxMutations
  /\ rm' = [rm EXCEPT ![e] = AfterReset(@)]
  /\ mutations' = mutations + 1
  /\ UNCHANGED <<lasts, config, mocks, calls, interception, activation, listeners,
                 reqs>>

\* a page that is always taken for idle
AlwaysIdle == TRUE

\* page.waitForNetworkIdle(): no request of the page is in flight
NetworkIdle == \A r \in 1..Len(reqs) : reqs[r].reply.kind # "none"

\* this.calls[this.calls.length - 1]: undefined for an empty history
LastOf(history) ==
  IF history = <<>> THEN [defined |-> FALSE]
  ELSE [defined |-> TRUE, call |-> history[Len(history)]]

\* get last(), up to the promise it returns
ReadLast(e) ==
  /\ activation[e[1]] = "installed"
  /\ Len(lasts) < MaxReads
  /\ lasts' = Append(lasts, [of |-> e, st |-> "pending",
                              value |-> [defined |-> FALSE]])
  /\ UNCHANGED <<config, mocks, calls, interception, activation, listeners,
                 rm, reqs, mutations>>

\* the callback of then: the network is idle, the history is read now
LastResolve(i) ==
  /\ i \in 1..Len(lasts)
  /\ lasts[i].st = "pending"
  /\ NetworkIdle
  /\ lasts' = [lasts EXCEPT ![i].st = "resolved",
                            ![i].value = LastOf(rm[lasts[i].of].calls)]
  /\ UNCHANGED <<config, mocks, calls, interception, activation, listeners,
                 rm, reqs, mutations>>

\* waitForNetworkIdle gives up on a network that does not become idle
LastTimeout(i) ==
  /\ i \in 1..Len(lasts)
  /\ lasts[i].st = "pending"
  /\ ~NetworkIdle
  /\ lasts' = [lasts EXCEPT ![i].st = "rejected"]
  /\ UNCHANGED <<config, mocks, calls, interception, activation, listeners,
                 rm, reqs, mutations>>

----------------------------------------------------------------------------
(* mockAPI (puppeteer.ts, lines 110-126) and setupInteractionBuilders.     *)

\* a base mock that is taken to be there for every request
AlwaysMock(s, k) == "mock"

\* api.mocks[key] || (() => ({}))
BaseMock(s, k) == IF k \in mocks[s] THEN "mock" ELSE "empty"

\* one listener for the whole service
SharedListener(s) == <<<<s, RequestKeys(s)[1]>>>>

\* the listeners page.on("request", ...) registers, one in the constructor
\* of each RequestMock, in the order of Object.keys(api.requests)
InstalledListeners(s) ==
  [i \in 1..Len(RequestKeys(s)) |-> <<s, RequestKeys(s)[i]>>]

\* api.mocks emptied
NoMocks(s) == {}

\* what mockAPI leaves in api.mocks
MocksAfterMockAPI(s) == mocks[s]

\* mockAPI(api, page): page.setRequestInterception(true), then the reduce
\* over Object.keys(api.requests)
MockAPI(s) ==
  /\ activation[s] = "idle"
  /\ activation' = [activation EXCEPT ![s] = "installed"]
  /\ interception' = TRUE
  /\ listeners' = listeners \o InstalledListeners(s)
  /\ rm' = [e \in Endpoints |->
              IF e[1] = s THEN NewRequestMock(BaseMock(s, e[2])) ELSE rm[e]]
  /\ mocks' = [mocks EXCEPT ![s] = MocksAfterMockAPI(s)]
  /\ UNCHANGED <<lasts, config, calls, reqs, mutations>>

\* the services built as a MetaAPIService
MetaServices == {"users"}

\* setupInteractionBuilders(service): service.mocks = {}
SetupInteractionBuilders(s) ==
  /\ s \in MetaServices
  /\ mocks[s] # {}
  /\ mocks' = [mocks EXCEPT ![s] = {}]
  /\ UNCHANGED <<lasts, config, calls, interception, activation, listeners, rm, reqs,
                 mutations>>

----------------------------------------------------------------------------

\* the integration build on a page that the interceptors of two services
\* share with each other and with another observer
Next ==
  \/ \E s \in Services : \E k \in RequestNames(s) : \E input \in InputsOf(k) :
       Dispatch(s, k, input)
  \/ \E i \in 1..MaxCalls : FetchSettle(i)
  \/ \E t \in PageTraffic : PageRequest(t)
  \/ \E r \in 1..MaxRequests : OtherObserver(r)
  \/ \E r \in 1..MaxRequests : Finalize(r)
  \/ \E r \in 1..MaxRequests : \E o \in ExternalReplies : ExternalReply(r, o)
  \/ \E r \in 1..MaxRequests : ListenerEnter(r)
  \/ \E r \in 1..MaxRequests : ListenerResume(r)
  \/ \E s \in Services : MockAPI(s)
  \/ \E s \in Services : SetupInteractionBuilders(s)

Spec == Init /\ [][Next]_vars

\* the integration build on a page where a test reconfigures the
\* interceptors of one service
NextTest ==
  \/ \E k \in RequestNames("users") : \E input \in InputsOf(k) :
       Dispatch("users", k, input)
  \/ \E i \in 1..MaxCalls : FetchSettle(i)
  \/ \E r \in 1..MaxRequests : OtherObserver(r)
  \/ \E r \in 1..MaxRequests : Finalize(r)
  \/ \E r \in 1..MaxRequests : \E o \in ExternalReplies : ExternalReply(r, o)
  \/ \E r \in 1..MaxRequests : ListenerEnter(r)
  \/ \E r \in 1..MaxRequests : ListenerResume(r)
  \/ \E e \in Endpoints : \E m \in ResponseMocks : SetResponse(e, m)
  \/ \E e \in Endpoints : \E c \in ErrorCodes : \E m \in ErrorMocks :
       SetError(e, c, m)
  \/ \E e \in Endpoints : Reset(e)
  \/ MockAPI("users")

SpecTest == Init /\ [][NextTest]_vars

\* the development build
NextLocal ==
  \/ \E s \in Services : \E k \in RequestNames(s) : \E input \in InputsOf(k) :
       Dispatch(s, k, input)
  \/ Tick
  \/ \E i \in 1..MaxCalls : TimerFire(i)
  \/ \E i \in 1..MaxCalls : LiveSettle(i)
  \/ \E s \in Services : MockAPI(s)
  \/ \E s \in Services : SetupInteractionBuilders(s)

SpecLocal == InitLocal /\ [][NextLocal]_vars

\* the integration build on a page where a test reconfigures the
\* interceptors of one service and reads their last call
NextLast ==
  \/ \E k \in RequestNames("users") : \E input \in InputsOf(k) :
       Dispatch("users", k, input)
  \/ \E i \in 1..MaxCalls : FetchSettle(i)
  \/ \E r \in 1..MaxRequests : Finalize(r)
  \/ \E r \in 1..MaxRequests : \E o \in ExternalReplies : ExternalReply(r, o)
  \/ \E r \in 1..MaxRequests : ListenerEnter(r)
  \/ \E r \in 1..MaxRequests : ListenerResume(r)
  \/ \E e \in Endpoints : \E m \in ResponseMocks : SetResponse(e, m)
  \/ \E e \in Endpoints : \E c \in ErrorCodes : \E m \in ErrorMocks :
       SetError(e, c, m)
  \/ \E e \in Endpoints : Reset(e)
  \/ \E e \in Endpoints : ReadLast(e)
  \/ \E i \in 1..MaxReads : LastResolve(i)
  \/ \E i \in 1..MaxReads : LastTimeout(i)
  \/ MockAPI("users")

SpecLast == Init /\ [][NextLast]_vars

----------------------------------------------------------------------------
(* The claims.                                                             *)

\* the listeners queued for a request
ChainOf(q) == {listeners[j] : j \in 1..q.nl}

\* the respond() calls of an interceptor that answer a given request
SentFor(e, r) == {i \in 1..Len(rm[e].sent) : rm[e].sent[i].req = r}

\* C1: once mockAPI has run for a service, a request whose URL ends with
\* <name>/<request> and on which the default mock does not fail never goes
\* to the network; the interceptor calls the mock with the parsed body of
\* the request ({} when it has none), records exactly that input with the
\* mock's output in its history, and the request is completed with a
\* response made from such an output.
C1_InterceptedByDefaultMock ==
  \A r \in 1..Len(reqs) : \A e \in Endpoints :
    LET q == reqs[r]
        input == IF q.body = NoBody THEN EmptyObject ELSE JSONparse(q.body).v
        o == IF rm[e].baseMock = "mock" THEN MockImpl(e[1], e[2], input)
             ELSE Return(EmptyObject)
    IN (e \in ChainOf(q) /\ EndsWith(q.url, MatchTarget(e)) /\ ~Fails(o))
       => /\ q.done # "network"
          /\ Cardinality(SentFor(e, r)) <= 1
          /\ Len(rm[e].calls) = Len(rm[e].sent)
          /\ \A i \in SentFor(e, r) :
               /\ rm[e].calls[i] = [input |-> input, output |-> o.v]
               /\ rm[e].sent[i].status = 200
               /\ rm[e].sent[i].body = JSONstringify(o.v)
          /\ q.done = "respond" =>
               /\ SentFor(e, r) # {}
               /\ \E f \in ChainOf(q) : \E i \in SentFor(f, r) :
                    q.reply = [kind |-> "response",
                               status |-> rm[f].sent[i].status,
                               body |-> rm[f].sent[i].body]

\* a request without a body has been answered from the default mock, which
\* was called with {}
C1_Witness ==
  \E r \in 1..Len(reqs) : \E e \in Endpoints :
    /\ reqs[r].body = NoBody
    /\ reqs[r].done = "respond"
    /\ e \in ChainOf(reqs[r])
    /\ rm[e].baseMock = "mock"
    /\ \E i \in SentFor(e, r) :
         /\ rm[e].calls[i] = [input |-> EmptyObject, output |-> UserList]
         /\ reqs[r].reply.body = JSONstringify(UserList)

\* C2: with integrationMocks set, a call makes exactly one fetch, a POST to
\* /<name>/<request> with the serialised input as its body, calls neither
\* the mock nor the live implementation whatever this.mocks holds, and when
\* it resolves it resolves to the parsed body of the response.
C2_TunnelDispatch ==
  \A i \in 1..Len(calls) :
    LET c == calls[i]
    IN config[c.svc].integrationMocks
       => /\ c.fetches = 1
          /\ c.mockRuns = 0
          /\ c.liveRuns = 0
          /\ c.timer = "none"
          /\ {r \in 1..Len(reqs) : reqs[r].call = i} = {c.req}
          /\ reqs[c.req].method = "POST"
          /\ reqs[c.req].url =
               Origin \o <<"/">> \o NameTokens(c.svc) \o <<"/", c.key>>
          /\ reqs[c.req].body = JSONstringify(c.input)
          /\ c.st = "resolved" =>
               /\ reqs[c.req].reply.kind = "response"
               /\ JSONparse(reqs[c.req].reply.body).ok
               /\ c.result = JSONparse(reqs[c.req].reply.body).v

\* a tunnelled call of a request that has a mock has resolved to the body
\* of the response to its one fetch
C2_Witness ==
  \E i \in 1..Len(calls) :
    /\ config[calls[i].svc].integrationMocks
    /\ calls[i].hadMock
    /\ calls[i].input = User
    /\ calls[i].st = "resolved"
    /\ calls[i].result = User
    /\ calls[i].mockRuns = 0

\* C3: without integrationMocks, a call of a request that has a mock never
\* calls the live implementation, and it settles only after the configured
\* timeout (200 when none is configured) has passed, to what the mock gives
\* for the call's input.
C3_MockDispatch ==
  \A i \in 1..Len(calls) :
    LET c == calls[i]
        delay == IF config[c.svc].timeout = NoTimeout THEN 200
                 ELSE config[c.svc].timeout
        o == MockImpl(c.svc, c.key, c.input)
    IN (~config[c.svc].integrationMocks /\ c.hadMock)
       => /\ c.liveRuns = 0
          /\ c.fetches = 0
          /\ c.mockRuns <= 1
          /\ c.mockRuns = 1 => c.elapsed >= delay
          /\ c.st = "resolved" =>
               c.mockRuns = 1 /\ ~Fails(o) /\ c.result = o.v
          /\ c.st = "rejected" =>
               c.mockRuns = 1 /\ Fails(o) /\ c.result = o.v

\* a call has resolved to its mock's value after the configured 100 ms, and
\* another after the default 200 ms
C3_Witness ==
  \E i \in 1..Len(calls) :
    /\ calls[i].hadMock
    /\ calls[i].st = "resolved"
    /\ calls[i].result = UserList
    /\ config[calls[i].svc].timeout = 100
    /\ calls[i].elapsed = 100

\* C4: without integrationMocks, a call of a request that has no mock calls
\* the live implementation once, at once and with no timer, and settles as
\* the live implementation does.
C4_LiveDispatch ==
  \A i \in 1..Len(calls) :
    LET c == calls[i]
        o == LiveCall(c.svc, c.key, c.input)
    IN (~config[c.svc].integrationMocks /\ ~c.hadMock)
       => /\ c.liveRuns = 1
          /\ c.mockRuns = 0
          /\ c.fetches = 0
          /\ c.timer = "none"
          /\ c.elapsed = 0
          /\ c.st = "resolved" => ~Fails(o) /\ c.result = o.v
          /\ c.st = "rejected" => Fails(o) /\ c.result = o.v

\* a call of a request without a mock has resolved to the live result
C4_Witness ==
  \E i \in 1..Len(calls) :
    /\ ~config[calls[i].svc].integrationMocks
    /\ ~calls[i].hadMock
    /\ calls[i].liveRuns = 1
    /\ calls[i].st = "resolved"
    /\ calls[i].result = EmptyList

\* C5: a request that an interceptor takes up after setError(code, r), and
\* answers before anything else is set, is answered with that code and the
\* serialised output of r for the request's input; one taken up after a
\* reset() is answered with 200 and the output of the mock captured when
\* mockAPI ran.
C5_SetErrorThenReset ==
  \A e \in Endpoints : \A i \in 1..Len(rm[e].sent) :
    LET x == rm[e].sent[i]
        q == reqs[x.req]
        input == IF q.body = NoBody THEN EmptyObject ELSE JSONparse(q.body).v
        answered(status, v) ==
          /\ x.status = status
          /\ x.body = JSONstringify(v)
          /\ rm[e].calls[i] = [input |-> input, output |-> v]
          /\ q.done = "respond" =>
               q.reply = [kind |-> "response", status |-> status,
                          body |-> JSONstringify(v)]
    IN x.seen.mutations = x.mutations
       => /\ x.seen.op[1] = "setError" =>
               LET o == IF x.seen.op[3] = "error" THEN Resolve(ErrorPayload)
                        ELSE Return(CustomOutput)
               IN answered(x.seen.op[2], o.v)
          /\ x.seen.op = <<"reset">> =>
               LET o == IF rm[e].baseMock = "mock"
                        THEN MockImpl(e[1], e[2], input)
                        ELSE Return(EmptyObject)
               IN answered(200, o.v)

\* an interceptor has answered one request with 503 and the error payload
\* after setError, and a later one with 200 and the mock's output after
\* reset
C5_Witness ==
  \E e \in Endpoints : \E i, j \in 1..Len(rm[e].sent) :
    /\ i < j
    /\ rm[e].sent[i].seen.op = <<"setError", 503, "error">>
    /\ rm[e].sent[i].seen.mutations = rm[e].sent[i].mutations
    /\ rm[e].sent[i].status = 503
    /\ reqs[rm[e].sent[i].req].reply.body = JSONstringify(ErrorPayload)
    /\ rm[e].sent[j].seen.op = <<"reset">>
    /\ rm[e].sent[j].seen.mutations = rm[e].sent[j].mutations
    /\ reqs[rm[e].sent[j].req].done = "respond"
    /\ reqs[rm[e].sent[j].req].reply.status = 200

\* C6: a request is resolved once: after it has been handled, by another
\* observer or by the interceptors' own resolution, its resolution never
\* changes, its reply changes only when the network answers a request that
\* was continued, and no interceptor records a call for it or responds to
\* it, also when its responder resolves only afterwards.
C6_HandledOnce ==
  [][\A r \in 1..Len(reqs) :
       reqs[r].handled =>
         /\ reqs'[r].handled
         /\ reqs'[r].done = reqs[r].done
         /\ \/ reqs'[r].reply = reqs[r].reply
            \/ reqs[r].done = "network" /\ reqs[r].reply.kind = "none"
         /\ reqs'[r].vote = reqs[r].vote
         /\ (reqs[r].phase = "await" /\ reqs'[r].phase # "await") => rm' = rm
         /\ \A e \in Endpoints : SentFor(e, r)' = SentFor(e, r)]_vars

\* an interceptor's responder resolved after another observer had claimed
\* the request, and the interceptor dropped the result
C6_Witness ==
  \E r \in 1..Len(reqs) : \E e \in ChainOf(reqs[r]) :
    /\ "resume" \in reqs[r].skipped
    /\ reqs[r].done = "other"
    /\ EndsWith(reqs[r].url, MatchTarget(e))
    /\ SentFor(e, r) = {}
    /\ reqs[r].idx = reqs[r].nl + 1

\* C7: the history of an interceptor is in the order in which the
\* responders resolve: whenever it changes, the call of the request whose
\* responder has just resolved is added after every call already there,
\* whichever request was sent first.
C7_HistoryInResolutionOrder ==
  [][\A e \in Endpoints :
       rm'[e].calls # rm[e].calls =>
         \E r \in 1..Len(reqs) :
           /\ reqs[r].phase = "await"
           /\ listeners[reqs[r].idx] = e
           /\ reqs'[r].phase # "await"
           /\ rm'[e].calls =
                Append(rm[e].calls, [input |-> reqs[r].input,
                                     output |-> reqs[r].pending.v])
           /\ rm'[e].sent[Len(rm'[e].sent)].req = r]_vars

\* two requests to one endpoint: the one sent second is first in the history
C7_Witness ==
  \E e \in Endpoints :
    /\ Len(rm[e].calls) = 2
    /\ rm[e].sent[1].req = 2
    /\ rm[e].sent[2].req = 1

\* C8, as stated: once mockAPI has run for a service its this.mocks is
\* empty, and no later call of the service takes the mock branch.
C8_MocksClearedByMockAPI ==
  \A s \in Services :
    activation[s] = "installed" =>
      /\ mocks[s] = {}
      /\ \A i \in 1..Len(calls) :
           (calls[i].svc = s /\ calls[i].afterMockAPI) =>
             calls[i].route # "mock"

\* C8, amended: mockAPI leaves this.mocks as it is, and a call made after
\* it without integrationMocks still takes the mock branch, timer and all,
\* whenever this.mocks holds a mock for the request.
C8_MocksKeptByMockAPI ==
  [][/\ \A s \in Services :
          (activation[s] = "idle" /\ activation'[s] = "installed") =>
            mocks' = mocks
     /\ \A i \in 1..Len(calls') :
          (/\ i > Len(calls)
           /\ activation[calls'[i].svc] = "installed"
           /\ ~config[calls'[i].svc].integrationMocks
           /\ calls'[i].key \in mocks[calls'[i].svc]) =>
            /\ calls'[i].timer = "armed"
            /\ calls'[i].liveRuns = 0
            /\ calls'[i].fetches = 0]_vars

\* a call made after mockAPI has resolved to its mock's value
C8_Witness ==
  \E i \in 1..Len(calls) :
    /\ calls[i].afterMockAPI
    /\ activation[calls[i].svc] = "installed"
    /\ calls[i].key \in mocks[calls[i].svc]
    /\ calls[i].mockRuns = 1
    /\ calls[i].st = "resolved"
    /\ calls[i].result = UserList

\* the listeners of the page that belong to a service
ListenersOf(s) == {i \in 1..Len(listeners) : listeners[i][1] = s}

\* C9, as stated: a service for which mockAPI has run has exactly one
\* listener on the page.
C9_OneListenerPerService ==
  \A s \in Services :
    activation[s] = "installed" => Cardinality(ListenersOf(s)) = 1

\* C9, amended: a service for which mockAPI has run has one listener on the
\* page for each of its requests, each the listener of that request's own
\* interceptor, and a service for which it has not run has none.
C9_OneListenerPerRequest ==
  \A s \in Services :
    IF activation[s] = "installed"
    THEN /\ Cardinality(ListenersOf(s)) = Cardinality(RequestNames(s))
         /\ \A k \in RequestNames(s) :
              Cardinality({i \in ListenersOf(s) : listeners[i][2] = k}) = 1
         /\ interception
    ELSE ListenersOf(s) = {}

\* mockAPI has run for a service with two requests, and the page has its
\* two listeners
C9_Witness ==
  /\ activation["users"] = "installed"
  /\ Cardinality(ListenersOf("users")) = 2
  /\ \E r \in 1..Len(reqs) : reqs[r].nl >= 2 /\ reqs[r].done = "respond"

\* C10: a tunnelled call made after mockAPI has run for its service, for a
\* request that has a mock, on which no override is set and which no other
\* observer answers, resolves only to the value the mock branch resolves
\* to for the same input.
C10_TunnelEqualsLocal ==
  \A i \in 1..Len(calls) :
    LET c == calls[i]
        o == MockImpl(c.svc, c.key, c.input)
    IN (/\ config[c.svc].integrationMocks
        /\ c.afterMockAPI
        /\ c.hadMock
        /\ rm[<<c.svc, c.key>>].op = <<"new">>
        /\ reqs[c.req].done # "other"
        /\ c.st = "resolved")
       => ~Fails(o) /\ c.result = o.v

\* C11: a tunnelled call makes one fetch and settles only on its reply:
\* a response with a JSON body resolves it to the parsed body whatever the
\* status, a network error or a body that is not JSON rejects it, and it
\* never fetches again.
C11_StatusIgnoredByTunnel ==
  \A i \in 1..Len(calls) :
    LET c == calls[i]
        reply == reqs[c.req].reply
    IN config[c.svc].integrationMocks
       => /\ c.fetches = 1
          /\ Cardinality({r \in 1..Len(reqs) : reqs[r].call = i}) = 1
          /\ c.st # "pending" => reply.kind # "none"
          /\ (c.st # "pending" /\ reply.kind = "error") =>
               c.st = "rejected" /\ c.result = "NetworkError"
          /\ (c.st # "pending" /\ reply.kind = "response") =>
               IF JSONparse(reply.body).ok
               THEN c.st = "resolved" /\ c.result = JSONparse(reply.body).v
               ELSE c.st = "rejected" /\ c.result = "SyntaxError"

\* a call has resolved to the body of a response with the status 503 that
\* setError had set
C11_Witness ==
  \E i \in 1..Len(calls) :
    /\ calls[i].st = "resolved"
    /\ calls[i].result = ErrorPayload
    /\ reqs[calls[i].req].reply.status = 503
    /\ calls[i].fetches = 1

\* C12: setResponse(r) changes the override of its interceptor and nothing
\* else, neither the status nor the history; a request the interceptor
\* takes up after it, and answers before anything else is set, is answered
\* with the status in force (the code of an earlier setError, if any) and
\* the serialised output of r.
C12_SetResponseKeepsStatus ==
  /\ [](\A e \in Endpoints : \A i \in 1..Len(rm[e].sent) :
         LET x == rm[e].sent[i]
             q == reqs[x.req]
         IN (x.seen.mutations = x.mutations /\ x.seen.op[1] = "setResponse")
            => /\ x.seen.op[2] = "custom"
               /\ x.status = x.seen.status
               /\ x.body = JSONstringify(CustomOutput)
               /\ rm[e].calls[i].output = CustomOutput
               /\ q.done = "respond" =>
                    q.reply = [kind |-> "response", status |-> x.seen.status,
                               body |-> JSONstringify(CustomOutput)])
  /\ [][\A e \in Endpoints :
          (rm'[e].op # rm[e].op /\ rm'[e].op[1] = "setResponse") =>
            /\ rm'[e].override = rm'[e].op[2]
            /\ rm'[e].status = rm[e].status
            /\ rm'[e].calls = rm[e].calls
            /\ \A f \in Endpoints \ {e} : rm'[f] = rm[f]]_vars

\* after setError(503, r1) and setResponse(r2) a request has been answered
\* with 503 and the output of r2
C12_Witness ==
  \E e \in Endpoints : \E i \in 1..Len(rm[e].sent) :
    /\ rm[e].sent[i].seen.op = <<"setResponse", "custom">>
    /\ rm[e].sent[i].seen.status = 503
    /\ rm[e].sent[i].seen.mutations = rm[e].sent[i].mutations
    /\ reqs[rm[e].sent[i].req].done = "respond"
    /\ reqs[rm[e].sent[i].req].reply.status = 503
    /\ reqs[rm[e].sent[i].req].reply.body = JSONstringify(CustomOutput)

\* C13: reading last changes nothing of the interceptors or the requests;
\* the read resolves only in a state where no request of the page is in
\* flight, to the last call of the history as it is then, or to undefined
\* when the history is empty, and a settled read never changes.
C13_LastAfterNetworkIdle ==
  [][\A i \in 1..Len(lasts') :
       /\ i > Len(lasts) =>
            /\ lasts'[i].st = "pending"
            /\ rm' = rm /\ reqs' = reqs /\ calls' = calls
       /\ (i <= Len(lasts) /\ lasts[i].st # "pending") => lasts'[i] = lasts[i]
       /\ (i <= Len(lasts) /\ lasts[i].st = "pending"
             /\ lasts'[i].st = "resolved") =>
            LET history == rm[lasts[i].of].calls
            IN /\ \A r \in 1..Len(reqs) : reqs[r].reply.kind # "none"
               /\ rm' = rm /\ reqs' = reqs
               /\ IF Len(history) = 0
                  THEN ~lasts'[i].value.defined
                  ELSE /\ lasts'[i].value.defined
                       /\ lasts'[i].value.call = history[Len(history)]]_vars

\* a read of last has resolved to the last call of a history, after the
\* request of that call was answered
C13_Witness ==
  \E i \in 1..Len(lasts) :
    /\ lasts[i].st = "resolved"
    /\ lasts[i].value.defined
    /\ lasts[i].value.call.output = UserList
    /\ Len(rm[lasts[i].of].calls) >= 1
    /\ \E r \in 1..Len(reqs) : reqs[r].done = "respond"

\* C14: without integrationMocks, once the timer of a call has fired and
\* its mock has been run, a mock that throws or rejects has rejected the
\* call with its exception, run once.
C14_MockExceptionRejects ==
  \A i \in 1..Len(calls) :
    LET c == calls[i]
        o == MockImpl(c.svc, c.key, c.input)
    IN (~config[c.svc].integrationMocks /\ c.mockRuns >= 1 /\ Fails(o))
       => /\ c.st = "rejected"
          /\ c.result = o.v
          /\ c.mockRuns = 1
          /\ c.elapsed >= c.delay

\* C15: when the responder of an interceptor fails on a request, the step
\* in which the listener ends changes no RequestMock (history, override,
\* status), records neither a response nor a continue for the request,
\* does not resolve it and touches no other request; the interceptor has no
\* respond() call for that request, and a later request it matches and on
\* which its responder does not fail is answered by it as usual.
C15_ResponderFailureConfined ==
  /\ [][\A r \in 1..Len(reqs) :
          (reqs[r].phase = "await" /\ Fails(reqs[r].pending)
             /\ reqs'[r].phase # "await") =>
            /\ rm' = rm
            /\ reqs'[r].vote = reqs[r].vote
            /\ reqs'[r].handled = reqs[r].handled
            /\ reqs'[r].done = reqs[r].done
            /\ reqs'[r].reply = reqs[r].reply
            /\ \A s \in 1..Len(reqs) : s # r => reqs'[s] = reqs[s]]_vars
  /\ [](\A r \in 1..Len(reqs) : \A e \in reqs[r].failed :
          /\ SentFor(e, r) = {}
          /\ \A s \in (r + 1)..Len(reqs) :
               LET q == reqs[s]
                   input == IF q.body = NoBody THEN EmptyObject
                            ELSE JSONparse(q.body).v
                   o == Invoke(rm[e].baseMock, e, input)
               IN (e \in ChainOf(q) /\ EndsWith(q.url, MatchTarget(e))
                     /\ ~Fails(o) /\ q.done \notin {"no", "other"}) =>
                    /\ q.done = "respond"
                    /\ \E i \in SentFor(e, s) :
                         /\ rm[e].calls[i] = [input |-> input, output |-> o.v]
                         /\ rm[e].sent[i].status = 200)

\* the responder of an interceptor failed on one request, which has no
\* entry in the history, and the next request was answered by it
C15_Witness ==
  \E e \in Endpoints : \E r, s \in 1..Len(reqs) :
    /\ r < s
    /\ e \in reqs[r].failed
    /\ SentFor(e, r) = {}
    /\ reqs[r].done # "respond"
    /\ reqs[s].done = "respond"
    /\ SentFor(e, s) # {}
    /\ Len(rm[e].calls) = 1

\* C16: the branch of a call is decided from this.mocks as it is when the
\* call is made: without integrationMocks a call made while this.mocks has
\* a mock for the request arms the timer of the mock, a call made after
\* this.mocks was emptied calls the live implementation at once, and the
\* branch of a call already made does not change.
C16_RouteDecidedPerCall ==
  [][\A i \in 1..Len(calls') :
       LET c == calls'[i]
       IN /\ (i > Len(calls) /\ ~config[c.svc].integrationMocks) =>
               IF c.key \in mocks[c.svc]
               THEN c.timer = "armed" /\ c.liveRuns = 0 /\ c.fetches = 0
               ELSE c.timer = "none" /\ c.liveRuns = 1 /\ c.fetches = 0
          /\ i <= Len(calls) =>
               /\ c.route = calls[i].route
               /\ c.liveRuns = calls[i].liveRuns
               /\ c.timer = "none" <=> calls[i].timer = "none"]_vars

\* two calls of one request: the first took the mock branch, the second,
\* made after this.mocks was emptied, the live one
C16_Witness ==
  \E i, j \in 1..Len(calls) :
    /\ i < j
    /\ calls[i].svc = calls[j].svc
    /\ calls[i].key = calls[j].key
    /\ calls[i].hadMock /\ calls[i].timer # "none" /\ calls[i].liveRuns = 0
    /\ ~calls[j].hadMock /\ calls[j].timer = "none" /\ calls[j].liveRuns = 1
    /\ mocks[calls[j].svc] = {}

\* C17: the names of the services being distinct, the request of a call
\* to /<name>/<request> is taken up only by the interceptor of that service
\* and request: no other interceptor calls its responder for it or records
\* it, and it is in at most one history.
C17_MatchedByOwnInterceptorOnly ==
  \A r \in 1..Len(reqs) :
    reqs[r].call # 0 =>
      LET c == calls[reqs[r].call]
          own == <<c.svc, c.key>>
      IN /\ \A e \in Endpoints \ {own} :
              /\ SentFor(e, r) = {}
              /\ ~(reqs[r].phase = "await" /\ listeners[reqs[r].idx] = e)
         /\ Cardinality({e \in Endpoints : SentFor(e, r) # {}}) <= 1

\* C18: a request that no queued interceptor matches is in no history and
\* is resolved, if the interceptors resolve it, by going on to the network;
\* a continue is recorded at priority -1 and only while no interceptor has
\* responded, so once an interceptor has responded the resolution is its
\* response at priority 0 and the request never goes to the network,
\* whether the other listeners ran before or after it.
C18_PassThroughYieldsToResponse ==
  \A r \in 1..Len(reqs) :
    LET q == reqs[r]
        matching == {e \in ChainOf(q) : EndsWith(q.url, MatchTarget(e))}
        responded == {e \in Endpoints : SentFor(e, r) # {}}
    IN /\ responded \subseteq matching
       /\ (q.nl > 0 /\ matching = {}) =>
            /\ q.done \in {"no", "network", "other"}
            /\ q.vote.action \in {"none", "continue"}
            /\ (q.vote.action = "none" /\ ~q.handled) => q.idx = 1
       /\ q.vote.action = "continue" =>
            q.vote.priority = -1 /\ responded = {}
       /\ responded # {} =>
            /\ q.vote.action = "respond"
            /\ q.vote.priority = 0
            /\ q.done # "network"

\* a request matched by one interceptor, with a listener that passed it
\* through before and one after, has been answered and not sent on
C18_Witness ==
  \E r \in 1..Len(reqs) : \E j \in 2..(reqs[r].nl - 1) :
    /\ {i \in 1..reqs[r].nl : EndsWith(reqs[r].url, MatchTarget(listeners[i]))}
         = {j}
    /\ SentFor(listeners[j], r) # {}
    /\ reqs[r].done = "respond"
    /\ reqs[r].skipped = {}

\* C19: in every step the history of an interceptor is left as it is or
\* gets one call added at its end, the call of a request whose responder
\* has just resolved and which had no call in it; setResponse, setError,
\* reset and the reads of last leave every history as it is; and a request
\* never has more than one call in a history.
C19_HistoryAppendOnly ==
  /\ [][/\ \A e \in Endpoints :
             \/ rm'[e].calls = rm[e].calls
             \/ /\ Len(rm'[e].calls) = Len(rm[e].calls) + 1
                /\ SubSeq(rm'[e].calls, 1, Len(rm[e].calls)) = rm[e].calls
                /\ \E r \in 1..Len(reqs) :
                     /\ reqs[r].phase = "await"
                     /\ reqs'[r].phase # "await"
                     /\ listeners[reqs[r].idx] = e
                     /\ SentFor(e, r) = {}
                     /\ SentFor(e, r)' = {Len(rm'[e].calls)}
        /\ (mutations' # mutations \/ lasts' # lasts) =>
             \A e \in Endpoints : rm'[e].calls = rm[e].calls]_vars
  /\ [](\A e \in Endpoints : \A r \in 1..Len(reqs) :
          /\ Cardinality(SentFor(e, r)) <= 1
          /\ Len(rm[e].calls) = Len(rm[e].sent))

\* a history of two calls, with a reset and a read of last made after the
\* first call was recorded
C19_Witness ==
  \E e \in Endpoints :
    /\ Len(rm[e].calls) = 2
    /\ rm[e].op = <<"reset">>
    /\ rm[e].sent[1].mutations < rm[e].sent[2].seen.mutations
    /\ \E i \in 1..Len(lasts) : lasts[i].of = e /\ lasts[i].st # "pending"

\* C20: mockAPI gives each interceptor the mock this.mocks holds for its
\* request at that moment, or () => ({}) when it holds none; no later step,
\* the emptying of this.mocks included, changes it; and with no override
\* every answer of the interceptor is 200 with the output of that mock, or
\* of {} when there was none.
C20_BaseMockCapturedAtInstall ==
  /\ [][\A s \in Services : \A k \in RequestNames(s) :
          /\ (activation[s] = "idle" /\ activation'[s] = "installed") =>
               rm'[<<s, k>>].baseMock =
                 IF k \in mocks[s] THEN "mock" ELSE "empty"
          /\ activation[s] = "installed" =>
               rm'[<<s, k>>].baseMock = rm[<<s, k>>].baseMock]_vars
  /\ [](\A e \in Endpoints : \A i \in 1..Len(rm[e].sent) :
          LET x == rm[e].sent[i]
              input == rm[e].calls[i].input
              v == IF rm[e].baseMock = "mock"
                   THEN MockImpl(e[1], e[2], input).v
                   ELSE EmptyObject
          IN x.seen.op = <<"new">> =>
               /\ x.status = 200
               /\ x.body = JSONstringify(v)
               /\ rm[e].calls[i].output = v)

\* a call made after this.mocks was emptied has been answered from the mock
\* that mockAPI had captured before
C20_Witness ==
  \E i \in 1..Len(calls) :
    /\ calls[i].afterMockAPI
    /\ ~calls[i].hadMock
    /\ mocks[calls[i].svc] = {}
    /\ rm[<<calls[i].svc, calls[i].key>>].baseMock = "mock"
    /\ SentFor(<<calls[i].svc, calls[i].key>>, calls[i].req) # {}
    /\ calls[i].st = "resolved"
    /\ calls[i].result = UserList

\* C21: the timer of a call that takes the mock branch is armed with the
\* configured timeout, whatever it is and 0 included, and with 200 only
\* when no timeout is configured.
C21_DelayIsConfiguredTimeout ==
  \A i \in 1..Len(calls) :
    LET c == calls[i]
        configured == config[c.svc].timeout
    IN c.timer # "none" =>
         c.delay = IF configured = NoTimeout THEN 200 ELSE configured

\* C22: every respond() call of an interceptor pairs the body of the
\* responder that was selected for the request with the status that was in
\* force when it was selected, also when setResponse, setError or reset is
\* called while the responder is pending: a responder selected after
\* setError(code, r) is r and is answered with code.
C22_StatusAndBodyFromOneConfiguration ==
  \A e \in Endpoints : \A i \in 1..Len(rm[e].sent) :
    LET x == rm[e].sent[i]
    IN /\ x.status = x.seen.status
       /\ x.body = JSONstringify(Invoke(x.used, e, rm[e].calls[i].input).v)
       /\ x.seen.op[1] = "setError" =>
            x.status = x.seen.op[2] /\ x.used = x.seen.op[3]
       /\ x.seen.op \in {<<"new">>, <<"reset">>} =>
            x.status = 200 /\ x.used = rm[e].baseMock

\* C23: once the timer of a call that took the mock branch has fired, the
\* call is settled with the result of the mock that was registered when the
\* call was made (a mock that returns a value or a promise), also when
\* service.mocks was emptied by setupInteractionBuilders during the delay;
\* the call record never changes after the timer has fired, so a call that
\* is pending then is pending forever.
C23_MockCallSettlesAfterDelay ==
  \A i \in 1..Len(calls) :
    LET c == calls[i]
        o == MockImpl(c.svc, c.key, c.input)
    IN (c.timer = "fired" /\ c.hadMock /\ o.kind # "throw") =>
         /\ c.st = (IF Fails(o) THEN "rejected" ELSE "resolved")
         /\ c.result = o.v
         /\ c.mockRuns = 1

\* C24: the history of an interceptor has one entry for each respond() call
\* the interceptor has made, each for a different request of the page; the
\* output of the i-th entry is the value serialised as the body of the i-th
\* respond() call; and a request completed with this interceptor's response
\* got the status and body of its respond() call for that request.
C24_HistoryMatchesResponses ==
  \A e \in Endpoints :
    /\ Len(rm[e].calls) = Len(rm[e].sent)
    /\ Cardinality({r \in 1..Len(reqs) : SentFor(e, r) # {}}) =
         Len(rm[e].calls)
    /\ \A i \in 1..Len(rm[e].sent) :
         /\ rm[e].sent[i].body = JSONstringify(rm[e].calls[i].output)
         /\ rm[e].sent[i].req \in 1..Len(reqs)
    /\ \A r \in 1..Len(reqs) :
         (reqs[r].done = "respond" /\ reqs[r].vote.by = e) =>
           \E i \in SentFor(e, r) :
             /\ reqs[r].reply.status = rm[e].sent[i].status
             /\ reqs[r].reply.body = rm[e].sent[i].body
             /\ reqs[r].reply.body = JSONstringify(rm[e].calls[i].output)

\* an interceptor has completed two requests with its responses, the first
\* from the default mock and the second from a setResponse responder, and
\* its history holds the two outputs in that order
C24_Witness ==
  \E e \in Endpoints :
    /\ Len(rm[e].calls) = 2
    /\ rm[e].calls[1].output = UserList
    /\ rm[e].calls[2].output = CustomOutput
    /\ \A i \in 1..2 :
         LET q == reqs[rm[e].sent[i].req]
         IN /\ q.done = "respond"
            /\ q.vote.by = e
            /\ q.reply.body = JSONstringify(rm[e].calls[i].output)

====
